---- MODULE Spec2Model ----
(***************************************************************************)
(* A model of ipfs-uniform-resolve: resolve(cid, path, options) walks a    *)
(* path across DAG-PB (UnixFS) nodes and regular IPLD nodes, fetching and  *)
(* decoding one block per recursion level.                                 *)
(*                                                                         *)
(* Text is modelled as a sequence of tokens.  A path is a sequence whose   *)
(* tokens are "/" or a piece of a segment; a CID's text and a string       *)
(* scalar are sequences of one-character tokens.                           *)
(*                                                                         *)
(* Left out: properties an object inherits from its JavaScript prototype   *)
(* (a key such as "constructor" or "toString"), byte arrays as values, and *)
(* the multibase/varint layout of a CID's text.                            *)
(***************************************************************************)
EXTENDS Integers, Sequences, FiniteSets, TLC

(***************************************************************************)
(* Bounds of the model.                                                    *)
(***************************************************************************)
\* Blocks carry the digests 1..MaxDigest; a block only refers to blocks of a
\* larger digest (content addressing: a block cannot name its own hash).
MaxDigest == 2
\* The longest path handed to resolve, in segments.
MaxSegs == 3

(***************************************************************************)
(* Codec and hash-function codes.                                          *)
(***************************************************************************)
kLibp2pKeyCodec == 114
kDagPbCodec == 112
kDagJsonCodec == 297
kSha256 == 18

Calls == {1, 2}

(***************************************************************************)
(* CIDs.                                                                   *)
(***************************************************************************)
MkCid(code, digest) == [code |-> code, hasher |-> kSha256, digest |-> digest]

NoCid == [code |-> 0, hasher |-> 0, digest |-> 0]

BlockCids == {MkCid(c, d) : c \in {kDagPbCodec, kDagJsonCodec}, d \in 1..MaxDigest}

KeyCids == {MkCid(kLibp2pKeyCodec, 1)}

AllCids == BlockCids \cup KeyCids

Digits == <<"0", "1", "2", "3", "4", "5", "6", "7", "8", "9">>

CodecChar(code) ==
  CASE code = kDagPbCodec -> "p"
    [] code = kDagJsonCodec -> "j"
    [] code = kLibp2pKeyCodec -> "k"
    [] OTHER -> "?"

\* cid.toString(): the text form of a CID.
CIDToString(cid) == <<"b", CodecChar(cid.code), Digits[cid.digest + 1]>>

(***************************************************************************)
(* Values of decoded nodes: a tag t and a payload v.                       *)
(***************************************************************************)
Undefined == [t |-> "undefined", v |-> 0]
Null == [t |-> "null", v |-> 0]
Num(n) == [t |-> "num", v |-> n]
Str(chars) == [t |-> "str", v |-> chars]
Arr(elems) == [t |-> "arr", v |-> elems]
Map(f) == [t |-> "map", v |-> f]
CidVal(cid) == [t |-> "cid", v |-> cid]
CidStr(cid) == Str(CIDToString(cid))
\* A DAG-PB node: its Links, each with an optional Name (<<>> when absent,
\* <<name>> otherwise) and a Hash.
PBLink(name, hash) == [Name |-> name, Hash |-> hash]
PBNode(links) == [t |-> "pb", v |-> links]

\* CID.asCID(node): the CID when node is typed as one, null otherwise.
AsCID(node) ==
  IF node.t = "cid" THEN [ok |-> TRUE, cid |-> node.v] ELSE [ok |-> FALSE, cid |-> NoCid]

\* CID.parse(node): the CID a string is the text of; throws for anything else.
CIDParse(node) ==
  IF node.t = "str" /\ \E c \in AllCids : CIDToString(c) = node.v
  THEN [ok |-> TRUE, cid |-> CHOOSE c \in AllCids : CIDToString(c) = node.v]
  ELSE [ok |-> FALSE, cid |-> NoCid]

(***************************************************************************)
(* Paths.                                                                  *)
(***************************************************************************)
RECURSIVE SplitFrom(_, _, _)
SplitFrom(path, i, cur) ==
  IF i > Len(path) THEN (IF cur = "" THEN <<>> ELSE <<cur>>)
  ELSE IF path[i] = "/"
       THEN (IF cur = "" THEN <<>> ELSE <<cur>>) \o SplitFrom(path, i + 1, "")
       ELSE SplitFrom(path, i + 1, cur \o path[i])

\* As PathSegs, had the empty pieces been kept: path.split("/")
RECURSIVE SplitAll(_, _, _)
SplitAll(path, i, cur) ==
  IF i > Len(path) THEN <<cur>>
  ELSE IF path[i] = "/" THEN <<cur>> \o SplitAll(path, i + 1, "")
  ELSE SplitAll(path, i + 1, cur \o path[i])

PathSegsUnfiltered(path) == SplitAll(path, 1, "")

\* path.split(/\/+/).filter((s) => s.length)
PathSegs(path) == SplitFrom(path, 1, "")

\* segs.join("/")
RECURSIVE JoinSlash(_)
JoinSlash(segs) ==
  IF Len(segs) = 0 THEN <<>>
  ELSE IF Len(segs) = 1 THEN <<segs[1]>>
  ELSE <<segs[1], "/">> \o JoinSlash(Tail(segs))

\* const [curr, ...rest] = segs: rest, and rest.join("/")
Rest(segs) == IF Len(segs) = 0 THEN <<>> ELSE Tail(segs)

RestPath(segs) == JoinSlash(Rest(segs))

\* segs.slice(i) for the 0-based i of the generic walk
SliceFrom(segs, i) == SubSeq(segs, i + 1, Len(segs))

\* As JumpPath, had the walk moved past segment i: segs.slice(i + 1).join("/")
JumpPathAfter(segs, i) == JoinSlash(SliceFrom(segs, i + 1))

\* segs.slice(i).join("/"): the path handed on at an embedded CID
JumpPath(segs, i) == JoinSlash(SliceFrom(segs, i))

(***************************************************************************)
(* Errors and the results of a step.                                       *)
(***************************************************************************)
NoErr == [name |-> "none", cid |-> NoCid, at |-> "", remaining |-> <<>>, message |-> <<>>]

\* new DeadEndError(msg, cid, at, remaining)
DeadEndError(msg, cid, at, remaining) ==
  [name |-> "DeadEndError", cid |-> cid, at |-> at, remaining |-> remaining, message |-> msg]

\* An error that is not a DeadEndError: a TypeError, a SyntaxError, or the
\* Block Source's or the decoder's own error.
OtherError(name, msg) ==
  [name |-> name, cid |-> NoCid, at |-> "", remaining |-> <<>>, message |-> msg]

NoBlock == [cid |-> NoCid, value |-> Undefined]

Throw(err) ==
  [kind |-> "throw", value |-> Undefined, cid |-> NoCid, block |-> NoBlock,
   err |-> err, path |-> <<>>]

Return(value, cid, block) ==
  [kind |-> "return", value |-> value, cid |-> cid, block |-> block,
   err |-> NoErr, path |-> <<>>]

\* this.resolve(cid, path, options)
Recurse(cid, path) ==
  [kind |-> "call", value |-> Undefined, cid |-> cid, block |-> NoBlock,
   err |-> NoErr, path |-> path]

Pending ==
  [kind |-> "none", value |-> Undefined, cid |-> NoCid, block |-> NoBlock,
   err |-> NoErr, path |-> <<>>]

DeadEndPrefix(cid) == <<"Resolution hit dead end at CID ">> \o CIDToString(cid)

(***************************************************************************)
(* Looking a segment up in the cursor of the generic walk.                 *)
(***************************************************************************)
Found(value) == [threw |-> FALSE, err |-> NoErr, value |-> value]

Threw(err) == [threw |-> TRUE, err |-> err, value |-> Undefined]

IsDigit(seg) == \E n \in 0..9 : Digits[n + 1] = seg

DigitOf(seg) == CHOOSE n \in 0..9 : Digits[n + 1] = seg

\* JSON.parse(seg): a number for a digit, a literal for true/false/null, and a
\* SyntaxError for any other segment.
JSONParse(seg) ==
  IF IsDigit(seg) THEN [ok |-> TRUE, isNum |-> TRUE, n |-> DigitOf(seg)]
  ELSE IF seg \in {"true", "false", "null"} THEN [ok |-> TRUE, isNum |-> FALSE, n |-> 0]
  ELSE [ok |-> FALSE, isNum |-> FALSE, n |-> 0]

\* Array.isArray(node)
IsArray(node) == node.t = "arr"

\* As ArrayIndex, had the array been indexed from one.
ArrayIndexFromOne(node, seg) ==
  LET p == JSONParse(seg)
  IN IF ~p.ok THEN Threw(OtherError("SyntaxError", <<"Unexpected token in JSON">>))
     ELSE IF p.isNum /\ p.n >= 1 /\ p.n <= Len(node.v) THEN Found(node.v[p.n])
     ELSE Found(Undefined)

\* node[JSON.parse(seg)] on an array
ArrayIndex(node, seg) ==
  LET p == JSONParse(seg)
  IN IF ~p.ok THEN Threw(OtherError("SyntaxError", <<"Unexpected token in JSON">>))
     ELSE IF p.isNum /\ p.n < Len(node.v) THEN Found(node.v[p.n + 1])
     ELSE Found(Undefined)

\* node[seg] on anything that is not an array
GetProperty(node, seg) ==
  CASE node.t = "map" ->
         IF seg \in DOMAIN node.v THEN Found(node.v[seg]) ELSE Found(Undefined)
    [] node.t = "null" ->
         Threw(OtherError("TypeError", <<"Cannot read properties of null">>))
    [] node.t = "str" ->
         IF IsDigit(seg) /\ DigitOf(seg) < Len(node.v)
         THEN Found(Str(<<node.v[DigitOf(seg) + 1]>>))
         ELSE IF seg = "length" THEN Found(Num(Len(node.v)))
         ELSE Found(Undefined)
    [] OTHER -> Found(Undefined)

\* if (Array.isArray(node)) node = node[JSON.parse(seg)]; else node = node[seg];
Lookup(node, seg) ==
  IF IsArray(node) THEN ArrayIndex(node, seg) ELSE GetProperty(node, seg)

\* segs.slice(0, i).reduce((acc, x) => acc + "/" + x): reduce without an
\* initial value throws a TypeError on an empty array.
ReducePath(segs, i) ==
  IF i = 0
  THEN [threw |-> TRUE, text |-> <<>>]
  ELSE [threw |-> FALSE, text |-> JoinSlash(SubSeq(segs, 1, i))]

(***************************************************************************)
(* Options.                                                                *)
(***************************************************************************)
NoOptions == [given |-> FALSE, followPb |-> TRUE, followIpld |-> TRUE]

OptionsSet ==
  {NoOptions} \cup
  {[given |-> TRUE, followPb |-> p, followIpld |-> q] : p \in BOOLEAN, q \in BOOLEAN}

\* As FollowPbDisabled, had it read the other flag.
FollowPbDisabledOtherFlag(options) == options.given /\ options.followIpld = FALSE

\* options?.followPb === false
FollowPbDisabled(options) == options.given /\ options.followPb = FALSE

\* options?.followIpld === false
FollowIpldDisabled(options) == options.given /\ options.followIpld = FALSE

(***************************************************************************)
(* The body of resolve after the block is decoded.                         *)
(***************************************************************************)
\* node.Links.find((n) => n.Name === curr)
HasLink(links, curr) == \E k \in 1..Len(links) : links[k].Name = <<curr>>

\* As FindLink, had the last matching link been taken.
FindLastLink(links, curr) ==
  links[CHOOSE k \in 1..Len(links) :
          /\ links[k].Name = <<curr>>
          /\ \A j \in (k + 1)..Len(links) : links[j].Name # <<curr>>]

FindLink(links, curr) ==
  links[CHOOSE k \in 1..Len(links) :
          /\ links[k].Name = <<curr>>
          /\ \A j \in 1..(k - 1) : links[j].Name # <<curr>>]

\* The DAG-PB branch.
PbBranch(cid, decoded, segs, options) ==
  LET curr == segs[1]
      links == decoded.value.v
  IN IF FollowPbDisabled(options)
     THEN Throw(DeadEndError(
            DeadEndPrefix(cid) \o <<": node is a DAG-PB node, but 'followPb' is set to 'false'">>,
            cid, curr, RestPath(segs)))
     ELSE IF HasLink(links, curr)
     THEN Recurse(FindLink(links, curr).Hash, RestPath(segs))
     ELSE Throw(DeadEndError(DeadEndPrefix(cid) \o <<": no link to ", curr>>,
                             cid, curr, RestPath(segs)))

\* The error thrown when node === undefined after segment i.
NoPropertyError(cid, segs, i) ==
  LET r == ReducePath(segs, i)
  IN IF r.threw
     THEN OtherError("TypeError", <<"Reduce of empty array with no initial value">>)
     ELSE DeadEndError(
            DeadEndPrefix(cid) \o <<": object has no property at path /">> \o r.text,
            cid, segs[1], RestPath(segs))

\* for (const [i, seg] of segs.entries()) { ... } return { value: node, cid, block }
RECURSIVE GenericLoop(_, _, _, _, _)
GenericLoop(cid, decoded, segs, i, node) ==
  IF i >= Len(segs) THEN Return(node, cid, decoded)
  ELSE LET look == Lookup(node, segs[i + 1])
           asCid == AsCID(look.value)
           cidStr == CIDParse(look.value)
       IN IF look.threw THEN Throw(look.err)
          ELSE IF look.value = Undefined THEN Throw(NoPropertyError(cid, segs, i))
          ELSE IF asCid.ok THEN Recurse(asCid.cid, JumpPath(segs, i))
          ELSE IF cidStr.ok THEN Recurse(cidStr.cid, JumpPath(segs, i))
          ELSE GenericLoop(cid, decoded, segs, i + 1, look.value)

\* The branch of a "regular" codec block.
IpldBranch(cid, decoded, segs, options) ==
  IF FollowIpldDisabled(options)
  THEN Throw(DeadEndError(
         DeadEndPrefix(cid) \o <<": node is an IPLD node, but 'followIpld' is set to 'false'">>,
         cid, segs[1], RestPath(segs)))
  ELSE GenericLoop(cid, decoded, segs, 0, decoded.value)

\* if (!segs.length) return { value: decoded.value, cid: decoded.cid, block: decoded }
IsBaseCase(segs) == Len(segs) = 0

\* cid.code === pb.code
IsDagPb(cid) == cid.code = kDagPbCodec

\* resolve from the split of the path to its return, throw or recursive call.
Traverse(cid, decoded, path, options) ==
  LET segs == PathSegs(path)
  IN IF IsBaseCase(segs) THEN Return(decoded.value, decoded.cid, decoded)
     ELSE IF IsDagPb(cid) THEN PbBranch(cid, decoded, segs, options)
     ELSE IpldBranch(cid, decoded, segs, options)

\* As IsKeyCodec, had the code been compared with the hash function's.
IsKeyCodecOtherCode(cid) == cid.code = kSha256

\* cid.code === kLibp2pKeyCodec
IsKeyCodec(cid) == cid.code = kLibp2pKeyCodec

KeyCodecError ==
  OtherError("TypeError",
             <<"Received CID with codec for 'libp2p-key'. ",
               "If you need to resolve IPNS into a CID, call resolveIpns() first">>)

(***************************************************************************)
(* The Block Source and the decoder.  What the Block Source holds for a    *)
(* CID is settled the first time the CID is fetched and never changes.     *)
(***************************************************************************)
BlockUnknown == [t |-> "unknown", v |-> 0]
\* block.get(cid) fails
BlockMissing == [t |-> "missing", v |-> 0]
\* bytes that decoder.decode() rejects
BlockCorrupt == [t |-> "corrupt", v |-> 0]

\* The CIDs a block of this CID can hold.
Refs(cid) == {r \in BlockCids : r.digest > cid.digest} \cup KeyCids

PlainNode ==
  Map("a" :> Map("b" :> Arr(<<Str(<<"x">>), Str(<<"y">>)>>)
                 @@ "1" :> Str(<<"k">>)
                 @@ "a" :> Null)
      @@ "b" :> Arr(<<Str(<<"x">>)>>)
      @@ "1" :> Str(<<"x", "y">>))

LinkingNode(r) == Map("a" :> CidVal(r) @@ "b" :> Arr(<<Str(<<"x">>), CidStr(r)>>))

LinkingList(r) == Arr(<<Str(<<"x">>), CidVal(r)>>)

IpldValues(cid) ==
  {PlainNode, Null, Str(<<"x", "y">>)}
    \cup {LinkingNode(r) : r \in Refs(cid)}
    \cup {LinkingList(r) : r \in Refs(cid)}

PbValues(cid) ==
  {PBNode(<<>>)}
    \cup {PBNode(<<PBLink(<<>>, r1), PBLink(<<"a">>, r1), PBLink(<<"a">>, r2),
                   PBLink(<<"1">>, r2)>>) : r1 \in Refs(cid), r2 \in Refs(cid)}

\* What the Block Source and the decoder can give for a CID.
Answers(cid) ==
  {BlockMissing, BlockCorrupt} \cup (IF IsDagPb(cid) THEN PbValues(cid) ELSE IpldValues(cid))

(***************************************************************************)
(* The paths a caller passes.                                              *)
(***************************************************************************)
SegNames == {"a", "b", "1"}

SegSeqs == UNION {[1..n -> SegNames] : n \in 0..MaxSegs}

\* "/a/b"
Canonical(segs) == <<"/">> \o JoinSlash(segs)

\* "//a//b//"
RECURSIVE Slashed(_)
Slashed(segs) ==
  IF Len(segs) = 0 THEN <<"/", "/">> ELSE <<"/", "/", segs[1]>> \o Slashed(Tail(segs))

Paths == {<<>>} \cup {Canonical(s) : s \in SegSeqs} \cup {Slashed(s) : s \in SegSeqs}

(***************************************************************************)
(* State.                                                                  *)
(***************************************************************************)
VARIABLES
  blocks,   \* the Block Source: CID -> what it holds, BlockUnknown until asked
  call,     \* per call of resolve made so far: where it is, its arguments,
            \* log and outcome
  ipns      \* the call of resolveIpns: where it is, its locals, what the
            \* Name Resolver holds for it, and its outcome

vars == <<blocks, call, ipns>>

Event(op, cid, path) == [op |-> op, cid |-> cid, path |-> path]

Idle ==
  [pc |-> "idle", cid |-> NoCid, path |-> <<>>, options |-> NoOptions,
   log |-> <<>>, result |-> Pending]

\* What resolveIpns gives back: a CID, or an error thrown.
IpnsReturn(cid) == [kind |-> "return", cid |-> cid, err |-> NoErr]

IpnsThrow(err) == [kind |-> "throw", cid |-> NoCid, err |-> err]

IpnsPending == [kind |-> "none", cid |-> NoCid, err |-> NoErr]

IpnsIdle ==
  [pc |-> "idle", name |-> Null, timeout |-> Undefined, addr |-> <<>>,
   resolves |-> <<>>, seq |-> <<>>, fail |-> NoErr, taken |-> 0, r |-> Null,
   result |-> IpnsPending]

Init ==
  /\ blocks = [c \in AllCids |-> BlockUnknown]
  /\ call = << >>
  /\ ipns = IpnsIdle

\* As Enter, had the recursive call been given the caller's own cid.
EnterOwnCid(rec, cid, path) ==
  LET id == IF rec.pc = "idle" THEN cid ELSE rec.cid
  IN IF IsKeyCodec(id)
     THEN [rec EXCEPT !.pc = "done", !.cid = id, !.path = path,
                      !.log = @ \o <<Event("resolve", id, path)>>,
                      !.result = Throw(KeyCodecError)]
     ELSE [rec EXCEPT !.pc = "get", !.cid = id, !.path = path,
                      !.log = @ \o <<Event("resolve", id, path), Event("get", id, path)>>]

\* resolve(cid, path, options) up to its first await: the libp2p-key check,
\* then block.get(cid) is called.
Enter(rec, cid, path) ==
  IF IsKeyCodec(cid)
  THEN [rec EXCEPT !.pc = "done", !.cid = cid, !.path = path,
                   !.log = @ \o <<Event("resolve", cid, path)>>,
                   !.result = Throw(KeyCodecError)]
  ELSE [rec EXCEPT !.pc = "get", !.cid = cid, !.path = path,
                   !.log = @ \o <<Event("resolve", cid, path), Event("get", cid, path)>>]

\* A caller calls resolve.
Resolve(c) ==
  /\ c \notin DOMAIN call
  /\ \E cid \in AllCids, path \in Paths, options \in OptionsSet :
       call' = call @@ (c :> Enter([Idle EXCEPT !.options = options], cid, path))
  /\ UNCHANGED <<blocks, ipns>>

\* As BlockGet, had a failed block.get(cid) been tried again.
BlockGetRetrying(c) ==
  /\ c \in DOMAIN call
  /\ call[c].pc = "get"
  /\ LET cid == call[c].cid
     IN \E answer \in (IF blocks[cid] = BlockUnknown THEN Answers(cid) ELSE {blocks[cid]}) :
          /\ blocks' = [blocks EXCEPT ![cid] = answer]
          /\ call' = [call EXCEPT ![c] =
               IF answer = BlockMissing
               THEN [@ EXCEPT !.log = @ \o <<Event("get", cid, call[c].path)>>]
               ELSE [@ EXCEPT !.pc = "decode",
                              !.log = @ \o <<Event("decode", cid, call[c].path)>>]]
  /\ UNCHANGED ipns

\* await block.get(cid) settles; on success decoder.decode() is called.
BlockGet(c) ==
  /\ c \in DOMAIN call
  /\ call[c].pc = "get"
  /\ LET cid == call[c].cid
     IN \E answer \in (IF blocks[cid] = BlockUnknown THEN Answers(cid) ELSE {blocks[cid]}) :
          /\ blocks' = [blocks EXCEPT ![cid] = answer]
          /\ call' = [call EXCEPT ![c] =
               IF answer = BlockMissing
               THEN [@ EXCEPT !.pc = "done",
                              !.result = Throw(OtherError("BlockSourceError", <<"block not found">>))]
               ELSE [@ EXCEPT !.pc = "decode",
                              !.log = @ \o <<Event("decode", cid, call[c].path)>>]]
  /\ UNCHANGED ipns

\* As Decode, had the path been a field of the resolver, written by every
\* invocation: the traversal reads the path of the caller that started last.
DecodeLastPath(c) ==
  /\ c \in DOMAIN call
  /\ call[c].pc = "decode"
  /\ LET cid == call[c].cid
         last == CHOOSE d \in DOMAIN call : \A e \in DOMAIN call : e <= d
         decoded == [cid |-> cid, value |-> blocks[cid]]
         step == Traverse(cid, decoded, call[last].path, call[c].options)
     IN call' = [call EXCEPT ![c] =
          IF blocks[cid] = BlockCorrupt
          THEN [@ EXCEPT !.pc = "done",
                         !.result = Throw(OtherError("DecodeError", <<"cannot decode">>))]
          ELSE IF step.kind = "call"
          THEN Enter(@, step.cid, step.path)
          ELSE [@ EXCEPT !.pc = "done", !.result = step]]
  /\ UNCHANGED <<blocks, ipns>>

\* As Decode, had the resolver kept the outcome of a finished call under its
\* starting identifier and answered later calls on that identifier from it.
DecodeMemo(c) ==
  /\ c \in DOMAIN call
  /\ call[c].pc = "decode"
  /\ LET cid == call[c].cid
         decoded == [cid |-> cid, value |-> blocks[cid]]
         step == Traverse(cid, decoded, call[c].path, call[c].options)
         memo == {d \in DOMAIN call : /\ call[d].pc = "done"
                                      /\ call[d].log[1].cid = call[c].log[1].cid}
     IN call' = [call EXCEPT ![c] =
          IF memo # {}
          THEN [@ EXCEPT !.pc = "done", !.result = call[CHOOSE d \in memo : TRUE].result]
          ELSE IF blocks[cid] = BlockCorrupt
          THEN [@ EXCEPT !.pc = "done",
                         !.result = Throw(OtherError("DecodeError", <<"cannot decode">>))]
          ELSE IF step.kind = "call"
          THEN Enter(@, step.cid, step.path)
          ELSE [@ EXCEPT !.pc = "done", !.result = step]]
  /\ UNCHANGED <<blocks, ipns>>

\* await decoder.decode() settles, and resolve runs on to its return, its throw
\* or the first await of the resolve it calls.
Decode(c) ==
  /\ c \in DOMAIN call
  /\ call[c].pc = "decode"
  /\ LET cid == call[c].cid
         decoded == [cid |-> cid, value |-> blocks[cid]]
         step == Traverse(cid, decoded, call[c].path, call[c].options)
     IN call' = [call EXCEPT ![c] =
          IF blocks[cid] = BlockCorrupt
          THEN [@ EXCEPT !.pc = "done",
                         !.result = Throw(OtherError("DecodeError", <<"cannot decode">>))]
          ELSE IF step.kind = "call"
          THEN Enter(@, step.cid, step.path)
          ELSE [@ EXCEPT !.pc = "done", !.result = step]]
  /\ UNCHANGED <<blocks, ipns>>

Step(c) == Resolve(c) \/ BlockGet(c) \/ Decode(c)

\* One caller.
Next == \E c \in {1} : Step(c)

Spec == Init /\ [][Next]_vars

\* A few calls, enough to walk chains of blocks of either kind:
\* "", "/a", "/a/a" and "/b/1", with no options or with followPb false.
FewPaths ==
  {<<>>, Canonical(<<"a">>), Canonical(<<"a", "a">>), Canonical(<<"b", "1">>)}

FewOptions == {NoOptions, [given |-> TRUE, followPb |-> FALSE, followIpld |-> TRUE]}

\* A caller calls resolve with a path and options among the given ones.
ResolveAmong(c, paths, opts) ==
  /\ c \notin DOMAIN call
  /\ \E cid \in AllCids, path \in paths, options \in opts :
       call' = call @@ (c :> Enter([Idle EXCEPT !.options = options], cid, path))
  /\ UNCHANGED <<blocks, ipns>>

ResolveFew(c) == ResolveAmong(c, FewPaths, FewOptions)

StepFew(c) == ResolveFew(c) \/ BlockGet(c) \/ Decode(c)

\* One caller, and a Block Source and a decoder that always answer: every
\* await settles.
FairNext == \E c \in {1} : StepFew(c)

Fairness == WF_vars(BlockGet(1)) /\ WF_vars(Decode(1))

FairSpec == Init /\ [][FairNext]_vars /\ Fairness

\* Two callers on one resolver, their steps interleaved at every await; each
\* asks for "/a" or "/b/1".
ConcPaths == {Canonical(<<"a">>), Canonical(<<"b", "1">>)}

ResolveConc(c) == ResolveAmong(c, ConcPaths, {NoOptions})

StepConc(c) == ResolveConc(c) \/ BlockGet(c) \/ Decode(c)

ConcNext == \E c \in Calls : StepConc(c)

ConcSpec == Init /\ [][ConcNext]_vars

(***************************************************************************)
(* resolveIpns.  Texts are sequences of characters.                        *)
(***************************************************************************)
\* The most strings the Name Resolver emits for one name.
MaxEmits == 2

IpnsMarker == <<"/", "i", "p", "n", "s", "/">>

IpfsMarker == <<"/", "i", "p", "f", "s", "/">>

\* The names a caller passes: a libp2p-key CID, the text of one, and a name
\* that is not the text of a CID ("io", as in resolveIpns("ipfs.io")).
Names ==
  {CidVal(k) : k \in KeyCids} \cup {CidStr(k) : k \in KeyCids} \cup {Str(<<"i", "o">>)}

Timeouts == {Undefined, Num(1)}

\* What the Name Resolver emits: "/ipfs/<cid>", "/ipfs/<cid>/a", "/ipns/io"
\* and "/ipfs/".
Emits ==
  {IpfsMarker \o CIDToString(c) : c \in BlockCids}
    \cup {IpfsMarker \o CIDToString(c) \o <<"/", "a">> : c \in {MkCid(kDagPbCodec, 1)}}
    \cup {IpnsMarker \o <<"i", "o">>, IpfsMarker}

RECURSIVE SeqsUpTo(_, _)
SeqsUpTo(S, n) ==
  IF n = 0 THEN {<<>>}
  ELSE LET shorter == SeqsUpTo(S, n - 1)
       IN shorter \cup {Append(q, x) : q \in shorter, x \in S}

EmitSeqs == SeqsUpTo(Emits, MaxEmits)

\* The errors with which the Name Resolver's sequence can break off.
ResolverErrors ==
  {OtherError("TimeoutError", <<"request timed out">>),
   OtherError("NotFoundError", <<"could not resolve name">>)}

\* "/ipns/" + cid, or "/ipns/" + cid.toString()
IpnsAddr(name) == IpnsMarker \o (IF name.t = "str" THEN name.v ELSE CIDToString(name.v))

\* r.slice(6)
Slice6(text) == SubSeq(text, 6 + 1, Len(text))

\* return CID.parse(r.slice(6)), with r as the loop left it.
ParseLast(r) ==
  IF r = Null
  THEN IpnsThrow(OtherError("TypeError", <<"Cannot read properties of null">>))
  ELSE LET parsed == CIDParse(Str(Slice6(r.v)))
       IN IF parsed.ok THEN IpnsReturn(parsed.cid)
          ELSE IpnsThrow(OtherError("ParseError", <<"cannot parse CID">>))

NameResolve(addr, options) == [addr |-> addr, options |-> options]

\* As ResolveIpns, had a string been parsed as a CID before the Name Resolver
\* is asked.
ResolveIpnsParsing ==
  /\ ipns.pc = "idle"
  /\ \E name \in Names, timeout \in Timeouts, seq \in EmitSeqs,
        fail \in {NoErr} \cup ResolverErrors :
       ipns' =
         IF name.t = "str" /\ ~CIDParse(name).ok
         THEN [ipns EXCEPT !.pc = "done", !.name = name, !.timeout = timeout,
                  !.addr = IpnsAddr(name), !.seq = seq, !.fail = fail,
                  !.result = IpnsThrow(OtherError("ParseError", <<"cannot parse CID">>))]
         ELSE [ipns EXCEPT !.pc = "resolving", !.name = name, !.timeout = timeout,
                  !.addr = IpnsAddr(name),
                  !.resolves = Append(@, NameResolve(IpnsAddr(name),
                                  [recursive |-> TRUE, timeout |-> timeout])),
                  !.seq = seq, !.fail = fail, !.taken = 0, !.r = Null]
  /\ UNCHANGED <<blocks, call>>

\* As ResolveIpns, had r started as ipnsAddr rather than null.
ResolveIpnsFromAddr ==
  /\ ipns.pc = "idle"
  /\ \E name \in Names, timeout \in Timeouts, seq \in EmitSeqs,
        fail \in {NoErr} \cup ResolverErrors :
       ipns' = [ipns EXCEPT !.pc = "resolving", !.name = name, !.timeout = timeout,
                  !.addr = IpnsAddr(name),
                  !.resolves = Append(@, NameResolve(IpnsAddr(name),
                                  [recursive |-> TRUE, timeout |-> timeout])),
                  !.seq = seq, !.fail = fail, !.taken = 0, !.r = Str(IpnsAddr(name))]
  /\ UNCHANGED <<blocks, call>>

\* A caller calls resolveIpns: ipnsAddr is built, r is null, and name.resolve
\* is called.  seq and fail are what the Name Resolver will give: the strings
\* it emits, and the error it breaks off with after them, if any.
ResolveIpns ==
  /\ ipns.pc = "idle"
  /\ \E name \in Names, timeout \in Timeouts, seq \in EmitSeqs,
        fail \in {NoErr} \cup ResolverErrors :
       ipns' = [ipns EXCEPT !.pc = "resolving", !.name = name, !.timeout = timeout,
                  !.addr = IpnsAddr(name),
                  !.resolves = Append(@, NameResolve(IpnsAddr(name),
                                  [recursive |-> TRUE, timeout |-> timeout])),
                  !.seq = seq, !.fail = fail, !.taken = 0, !.r = Null]
  /\ UNCHANGED <<blocks, call>>

\* As NameNext, had only the first emitted string been kept.
NameNextKeepFirst ==
  /\ ipns.pc = "resolving"
  /\ ipns.taken < Len(ipns.seq)
  /\ ipns' = [ipns EXCEPT !.taken = @ + 1,
                          !.r = IF @ = Null THEN Str(ipns.seq[ipns.taken + 1]) ELSE @]
  /\ UNCHANGED <<blocks, call>>

\* One turn of the for await loop: the Name Resolver emits i, and r = i.
NameNext ==
  /\ ipns.pc = "resolving"
  /\ ipns.taken < Len(ipns.seq)
  /\ ipns' = [ipns EXCEPT !.taken = @ + 1, !.r = Str(ipns.seq[ipns.taken + 1])]
  /\ UNCHANGED <<blocks, call>>

\* The Name Resolver's sequence ends: the loop is left and r is parsed.
NameEnd ==
  /\ ipns.pc = "resolving"
  /\ ipns.taken = Len(ipns.seq)
  /\ ipns.fail = NoErr
  /\ ipns' = [ipns EXCEPT !.pc = "done", !.result = ParseLast(ipns.r)]
  /\ UNCHANGED <<blocks, call>>

\* The Name Resolver's sequence breaks off with an error: the loop throws it.
NameFail ==
  /\ ipns.pc = "resolving"
  /\ ipns.taken = Len(ipns.seq)
  /\ ipns.fail # NoErr
  /\ ipns' = [ipns EXCEPT !.pc = "done", !.result = IpnsThrow(ipns.fail)]
  /\ UNCHANGED <<blocks, call>>

IpnsNext == ResolveIpns \/ NameNext \/ NameEnd \/ NameFail

IpnsSpec == Init /\ [][IpnsNext]_vars

(***************************************************************************)
(* resolve run to its end against the Block Source as it stands: the       *)
(* outcome of a call that nothing interleaves with.  Pending when it would *)
(* fetch a CID the Block Source has not been asked for yet.                *)
(***************************************************************************)
RECURSIVE ResolveFrom(_, _, _)
ResolveFrom(cid, path, options) ==
  IF IsKeyCodec(cid) THEN Throw(KeyCodecError)
  ELSE IF blocks[cid] = BlockUnknown THEN Pending
  ELSE IF blocks[cid] = BlockMissing
  THEN Throw(OtherError("BlockSourceError", <<"block not found">>))
  ELSE IF blocks[cid] = BlockCorrupt
  THEN Throw(OtherError("DecodeError", <<"cannot decode">>))
  ELSE LET step == Traverse(cid, [cid |-> cid, value |-> blocks[cid]], path, options)
       IN IF step.kind = "call" THEN ResolveFrom(step.cid, step.path, options) ELSE step

(***************************************************************************)
(* Vocabulary of the properties.                                           *)
(***************************************************************************)
IsResolveEvent(e) == e.op = "resolve"

\* The invocations of resolve a call has made, outermost first.
Levels(c) == SelectSeq(call[c].log, IsResolveEvent)

Gets(c) == {k \in 1..Len(call[c].log) : call[c].log[k].op = "get"}

Decodable(b) == b.t \notin {"unknown", "missing", "corrupt"}

Done(c) == call[c].pc = "done"

Failed(c, name) ==
  /\ Done(c)
  /\ call[c].result.kind = "throw"
  /\ call[c].result.err.name = name

\* The call has ended in the traversal of the block of its innermost level.
Walked(c) ==
  /\ Done(c)
  /\ ~IsKeyCodec(call[c].cid)
  /\ Decodable(blocks[call[c].cid])

LastSegs(c) == PathSegs(call[c].path)

LastBlock(c) == [cid |-> call[c].cid, value |-> blocks[call[c].cid]]

\* The walk of a regular node ran in the innermost level.
WalkedIpld(c) ==
  /\ Walked(c)
  /\ ~IsDagPb(call[c].cid)
  /\ ~FollowIpldDisabled(call[c].options)
  /\ Len(LastSegs(c)) > 0

IsEmbedded(v) == v.t = "cid" \/ (v.t = "str" /\ \E id \in AllCids : CIDToString(id) = v.v)

\* The lookup of section 4.2 b: an integer index into a sequence, a key of a
\* map, and no value otherwise.
Indexing(node, seg) ==
  CASE node.t = "arr" ->
         IF \E n \in 0..(Len(node.v) - 1) : Digits[n + 1] = seg
         THEN node.v[(CHOOSE n \in 0..(Len(node.v) - 1) : Digits[n + 1] = seg) + 1]
         ELSE Undefined
    [] node.t = "map" -> IF seg \in DOMAIN node.v THEN node.v[seg] ELSE Undefined
    [] OTHER -> Undefined

\* The cursor after the first k segments, Undefined once a lookup has yielded
\* no value or the walk has left the block at an embedded identifier.
RECURSIVE Cursor(_, _, _)
Cursor(root, segs, k) ==
  IF k = 0 THEN root
  ELSE LET prev == Cursor(root, segs, k - 1)
       IN IF prev = Undefined \/ (k > 1 /\ IsEmbedded(prev)) THEN Undefined
          ELSE Indexing(prev, segs[k])

\* The walk reaches segment k with a cursor.
Reaches(root, segs, k) ==
  LET prev == Cursor(root, segs, k - 1)
  IN prev # Undefined /\ ~(k > 1 /\ IsEmbedded(prev))

IsNumeric(seg) == \E n \in 0..9 : Digits[n + 1] = seg

\* Segment k finds a missing key, an index out of range or a scalar cursor.
NoValueAt(root, segs, k) ==
  /\ Reaches(root, segs, k)
  /\ Cursor(root, segs, k) = Undefined
  /\ (Cursor(root, segs, k - 1).t = "arr" => IsNumeric(segs[k]))

\* Segment k is not a number and the cursor is a sequence.
NonNumericAt(root, segs, k) ==
  /\ Reaches(root, segs, k)
  /\ Cursor(root, segs, k - 1).t = "arr"
  /\ ~IsNumeric(segs[k])

\* The first segment (1-based) after which the cursor is an embedded identifier.
JumpsAt(root, segs, k) ==
  /\ Reaches(root, segs, k)
  /\ IsEmbedded(Cursor(root, segs, k))

EmbeddedCid(v) == IF v.t = "cid" THEN v.v ELSE CHOOSE id \in AllCids : CIDToString(id) = v.v

\* Level j of call c made its recursive call from the walk of a regular node.
JumpedAtLevel(c, j) ==
  /\ j < Len(Levels(c))
  /\ ~IsDagPb(Levels(c)[j].cid)

(***************************************************************************)
(* C1: every recursive call of resolve passes a path with exactly one      *)
(* segment fewer than the path its caller received.                        *)
(***************************************************************************)
C1_OneSegmentPerStep ==
  \A c \in DOMAIN call : \A j \in 1..(Len(Levels(c)) - 1) :
    Len(PathSegs(Levels(c)[j + 1].path)) = Len(PathSegs(Levels(c)[j].path)) - 1

(***************************************************************************)
(* C2: in the walk of a regular node with following enabled, a lookup that *)
(* yields no value (missing key, index out of range, scalar cursor), at    *)
(* any segment including the first, ends resolve with a DeadEndError.      *)
(***************************************************************************)
C2_NoValueIsDeadEnd ==
  \A c \in DOMAIN call :
    (/\ WalkedIpld(c)
     /\ \E k \in 1..Len(LastSegs(c)) : NoValueAt(blocks[call[c].cid], LastSegs(c), k))
    => Failed(c, "DeadEndError")

(***************************************************************************)
(* C3: when the walk of a regular node reaches an embedded identifier at   *)
(* some segment, resolve recurses against that identifier with the path    *)
(* made of the segments that follow that segment.                          *)
(***************************************************************************)
C3_JumpPassesFollowingSegments ==
  \A c \in DOMAIN call : \A j \in 1..(Len(Levels(c)) - 1) :
    JumpedAtLevel(c, j) =>
      LET root == blocks[Levels(c)[j].cid]
          segs == PathSegs(Levels(c)[j].path)
      IN \A k \in 1..Len(segs) :
           JumpsAt(root, segs, k) =>
             /\ Levels(c)[j + 1].cid = EmbeddedCid(Cursor(root, segs, k))
             /\ PathSegs(Levels(c)[j + 1].path) = SubSeq(segs, k + 1, Len(segs))

(***************************************************************************)
(* C4: round trip: after a successful resolve whose walk jumped to an      *)
(* embedded identifier, resolving the returned identifier with the empty   *)
(* path yields the value that resolve returned.                            *)
(***************************************************************************)
C4_RoundTrip ==
  \A c \in DOMAIN call :
    (/\ Done(c)
     /\ call[c].result.kind = "return"
     /\ \E j \in 1..Len(Levels(c)) : JumpedAtLevel(c, j))
    => ResolveFrom(call[c].result.cid, <<>>, call[c].options).value = call[c].result.value

(***************************************************************************)
(* More vocabulary: the levels of a call.                                  *)
(***************************************************************************)
\* Level j of call c has traversed its block.
LevelWalked(c, j) == j < Len(Levels(c)) \/ Walked(c)

LevelSegs(c, j) == PathSegs(Levels(c)[j].path)

NamesLink(links, name) == \E k \in 1..Len(links) : links[k].Name = <<name>>

FirstTarget(links, name) ==
  LET hits == {k \in 1..Len(links) : links[k].Name = <<name>>}
  IN links[CHOOSE k \in hits : \A h \in hits : k <= h].Hash

\* resolve(id, "/name") on a DAG-PB node with following enabled, at level j.
OneNameOnPb(c, j) ==
  /\ Done(c)
  /\ LevelWalked(c, j)
  /\ IsDagPb(Levels(c)[j].cid)
  /\ ~FollowPbDisabled(call[c].options)
  /\ Len(LevelSegs(c, j)) = 1

NoLinkDeadEnd(c, j) ==
  /\ Failed(c, "DeadEndError")
  /\ call[c].result.err.at = LevelSegs(c, j)[1]
  /\ call[c].result.err.cid = Levels(c)[j].cid
  /\ call[c].result.err.remaining = <<>>

(***************************************************************************)
(* C5, as claimed: on a DAG-PB node with following enabled,                *)
(* resolve(id, "/name") succeeds if and only if the node has a link named  *)
(* name, and without one fails with a DeadEndError whose at is name, cid   *)
(* is id and remaining is empty.                                           *)
(***************************************************************************)
C5_SucceedsIffLinkExists ==
  \A c \in DOMAIN call : \A j \in 1..Len(Levels(c)) :
    OneNameOnPb(c, j) =>
      LET links == blocks[Levels(c)[j].cid].v
          name == LevelSegs(c, j)[1]
      IN /\ call[c].result.kind = "return" <=> NamesLink(links, name)
         /\ ~NamesLink(links, name) => NoLinkDeadEnd(c, j)

(***************************************************************************)
(* C5, amended: on a DAG-PB node with following enabled,                   *)
(* resolve(id, "/name") fails with a DeadEndError (at = name, cid = id,    *)
(* remaining empty) if and only if the node has no link named name; with   *)
(* such a link it resolves the first such link's target with the empty     *)
(* path, and succeeds, returning the target's decoded value, if and only   *)
(* if the target's codec is not libp2p-key and its fetch and decode        *)
(* succeed.                                                                *)
(***************************************************************************)
C5_LinkDecidesDeadEnd ==
  \A c \in DOMAIN call : \A j \in 1..Len(Levels(c)) :
    OneNameOnPb(c, j) =>
      LET links == blocks[Levels(c)[j].cid].v
          name == LevelSegs(c, j)[1]
      IN IF ~NamesLink(links, name) THEN NoLinkDeadEnd(c, j)
         ELSE LET target == FirstTarget(links, name)
              IN /\ ~Failed(c, "DeadEndError")
                 /\ j + 1 = Len(Levels(c))
                 /\ Levels(c)[j + 1] = Event("resolve", target, <<>>)
                 /\ call[c].result.kind = "return"
                      <=> (~IsKeyCodec(target) /\ Decodable(blocks[target]))
                 /\ call[c].result.kind = "return"
                      => call[c].result =
                           Return(blocks[target], target,
                                  [cid |-> target, value |-> blocks[target]])

\* A link named "a" was followed to a block, whose value came back.
C5_Witness ==
  \E c \in DOMAIN call : \E j \in 1..Len(Levels(c)) :
    /\ OneNameOnPb(c, j)
    /\ NamesLink(blocks[Levels(c)[j].cid].v, LevelSegs(c, j)[1])
    /\ call[c].result.kind = "return"
    /\ call[c].result.value = PlainNode

(***************************************************************************)
(* C6: in the walk of a regular node, a segment that is not a non-negative *)
(* integer, met while the cursor is a sequence, ends resolve with a        *)
(* DeadEndError.                                                           *)
(***************************************************************************)
C6_NonNumericOnSequenceIsDeadEnd ==
  \A c \in DOMAIN call :
    (/\ WalkedIpld(c)
     /\ \E k \in 1..Len(LastSegs(c)) : NonNumericAt(blocks[call[c].cid], LastSegs(c), k))
    => Failed(c, "DeadEndError")

(***************************************************************************)
(* C7: on a regular node, when every lookup along the path yields a value  *)
(* and none of them is an embedded identifier, resolve returns the value   *)
(* reached by applying the segments in order from the decoded root, with   *)
(* the identifier passed to that call and the decoded node of that block.  *)
(***************************************************************************)
PlainWalk(c) ==
  /\ WalkedIpld(c)
  /\ \A k \in 1..Len(LastSegs(c)) :
       /\ Cursor(blocks[call[c].cid], LastSegs(c), k) # Undefined
       /\ ~IsEmbedded(Cursor(blocks[call[c].cid], LastSegs(c), k))

C7_WalkReturnsIndexedValue ==
  \A c \in DOMAIN call :
    PlainWalk(c) =>
      call[c].result =
        Return(Cursor(blocks[call[c].cid], LastSegs(c), Len(LastSegs(c))),
               call[c].cid, LastBlock(c))

\* {"a": {"b": ["x", "y"]}} with "/a/b/1" has returned "y".
C7_Witness ==
  \E c \in DOMAIN call :
    /\ PlainWalk(c)
    /\ blocks[call[c].cid] = PlainNode
    /\ LastSegs(c) = <<"a", "b", "1">>
    /\ call[c].result.value = Str(<<"y">>)

(***************************************************************************)
(* C8: for an identifier that is not a libp2p-key and whose fetch and      *)
(* decode succeed, resolve with a path of zero segments returns the        *)
(* decoded root value, the decoded identifier and the decoded node, for    *)
(* either kind of node and any options, and fetches no further block.      *)
(***************************************************************************)
\* "", "/", or only slashes
OnlySlashes(path) == \A i \in 1..Len(path) : path[i] = "/"

ZeroSegments(c) ==
  /\ Done(c)
  /\ OnlySlashes(Levels(c)[1].path)
  /\ Levels(c)[1].cid.code # kLibp2pKeyCodec
  /\ Decodable(blocks[Levels(c)[1].cid])

C8_EmptyPathReturnsRoot ==
  \A c \in DOMAIN call :
    ZeroSegments(c) =>
      LET cid == Levels(c)[1].cid
          path == Levels(c)[1].path
      IN /\ call[c].result = Return(blocks[cid], cid, [cid |-> cid, value |-> blocks[cid]])
         /\ call[c].log = <<Event("resolve", cid, path), Event("get", cid, path),
                            Event("decode", cid, path)>>

\* A DAG-PB node with links, asked for "//" with followPb false, came back whole.
C8_Witness ==
  \E c \in DOMAIN call :
    /\ ZeroSegments(c)
    /\ Levels(c)[1].path = <<"/", "/">>
    /\ IsDagPb(Levels(c)[1].cid)
    /\ call[c].options.given /\ ~call[c].options.followPb
    /\ call[c].result.kind = "return"
    /\ Len(call[c].result.value.v) > 0

(***************************************************************************)
(* C9: with followPb false, a step that reaches a DAG-PB node with a       *)
(* segment left fails with a DeadEndError and follows no link: no          *)
(* recursive call leaves a DAG-PB node and no link target is fetched,      *)
(* whether or not a link matches.                                          *)
(***************************************************************************)
FollowPbIsFalse(c) == call[c].options.given /\ call[c].options.followPb = FALSE

C9_FollowPbFalseNeverFollows ==
  \A c \in DOMAIN call :
    FollowPbIsFalse(c) =>
      /\ \A j \in 1..(Len(Levels(c)) - 1) : ~IsDagPb(Levels(c)[j].cid)
      /\ (Walked(c) /\ IsDagPb(call[c].cid) /\ Len(LastSegs(c)) > 0) =>
           /\ Failed(c, "DeadEndError")
           /\ call[c].log[Len(call[c].log)] = Event("decode", call[c].cid, call[c].path)

\* A DAG-PB node with a link named "a", asked for "a" with followPb false.
C9_Witness ==
  \E c \in DOMAIN call :
    /\ FollowPbIsFalse(c)
    /\ Walked(c)
    /\ IsDagPb(call[c].cid)
    /\ LastSegs(c) = <<"a">>
    /\ NamesLink(blocks[call[c].cid].v, "a")
    /\ Failed(c, "DeadEndError")

(***************************************************************************)
(* C10: at every level of resolve (the starting identifier, the target of  *)
(* a DAG-PB link, an identifier embedded in a regular node) an identifier  *)
(* with the libp2p-key codec fails the call with a TypeError, and the      *)
(* Block Source is never asked for it.                                     *)
(***************************************************************************)
C10_KeyCodecIsTypeError ==
  \A c \in DOMAIN call :
    /\ \A k \in Gets(c) : call[c].log[k].cid.code # kLibp2pKeyCodec
    /\ \A id \in KeyCids : blocks[id] = BlockUnknown
    /\ \A j \in 1..Len(Levels(c)) :
         Levels(c)[j].cid.code = kLibp2pKeyCodec =>
           /\ Failed(c, "TypeError")
           /\ j = Len(Levels(c))
           /\ call[c].log[Len(call[c].log)] = Levels(c)[j]

\* A regular node led to a DAG-PB node whose link led to a libp2p-key.
C10_Witness ==
  \E c \in DOMAIN call :
    /\ Len(Levels(c)) = 3
    /\ ~IsDagPb(Levels(c)[1].cid)
    /\ IsDagPb(Levels(c)[2].cid)
    /\ Levels(c)[3].cid.code = kLibp2pKeyCodec
    /\ Failed(c, "TypeError")

(***************************************************************************)
(* C11: within one call of resolve the first failure ends the call: after  *)
(* it the call issues no fetch and no decode, no identifier is fetched a   *)
(* second time, and a failure of the Block Source or of the decoder        *)
(* reaches the caller as that collaborator's own error, not as a           *)
(* DeadEndError or a TypeError.                                            *)
(***************************************************************************)
LastEvent(c) == call[c].log[Len(call[c].log)]

\* An event of the log met a collaborator that fails: nothing follows it, and
\* once the await has settled the call has ended with the collaborator's error.
FailureIsFinal(c, k) ==
  LET e == call[c].log[k]
  IN /\ (e.op = "get" /\ blocks[e.cid] = BlockMissing) =>
          /\ k = Len(call[c].log)
          /\ call[c].pc = "get" \/ Failed(c, "BlockSourceError")
     /\ (e.op = "decode" /\ blocks[e.cid] = BlockCorrupt) =>
          /\ k = Len(call[c].log)
          /\ call[c].pc = "decode" \/ Failed(c, "DecodeError")

NoSecondFetch(c) ==
  \A k1 \in Gets(c) : \A k2 \in Gets(c) :
    call[c].log[k1].cid = call[c].log[k2].cid => k1 = k2

\* A call that has ended stays as it is.
EndedStaysEnded ==
  \A c \in DOMAIN call : Done(c) => call'[c] = call[c]

C11_FirstFailureEndsCall ==
  /\ [](\A c \in DOMAIN call :
          /\ NoSecondFetch(c)
          /\ \A k \in 1..Len(call[c].log) : FailureIsFinal(c, k)
          /\ Done(c) => call[c].result.kind \in {"return", "throw"})
  /\ [][EndedStaysEnded]_vars

\* A first block was walked, and the fetch of the second has failed.
C11_Witness ==
  \E c \in DOMAIN call :
    /\ Len(Levels(c)) = 2
    /\ blocks[call[c].cid] = BlockMissing
    /\ Failed(c, "BlockSourceError")
    /\ LastEvent(c).op = "get"

(***************************************************************************)
(* C12: every DeadEndError of resolve identifies the point of failure:     *)
(* cid is the block at which traversal stopped, at is the segment that     *)
(* failed to resolve, and remaining is the path still unresolved after     *)
(* that segment, in the DAG-PB branch and at any depth of the walk of a    *)
(* regular node.                                                           *)
(***************************************************************************)
\* The segment (1-based) of the innermost level at which traversal stopped:
\* the first one in the DAG-PB branch and when following is disabled, and in
\* the walk the first one whose lookup leaves no cursor.
FailingSegment(c) ==
  IF IsDagPb(call[c].cid) \/ FollowIpldDisabled(call[c].options) THEN 1
  ELSE LET stops == {k \in 1..Len(LastSegs(c)) :
                       /\ Reaches(blocks[call[c].cid], LastSegs(c), k)
                       /\ Cursor(blocks[call[c].cid], LastSegs(c), k) = Undefined}
       IN CHOOSE k \in stops : \A h \in stops : k <= h

C12_DeadEndNamesFailurePoint ==
  \A c \in DOMAIN call :
    Failed(c, "DeadEndError") =>
      LET k == FailingSegment(c)
      IN /\ call[c].result.err.cid = call[c].cid
         /\ call[c].result.err.at = LastSegs(c)[k]
         /\ PathSegs(call[c].result.err.remaining)
              = SubSeq(LastSegs(c), k + 1, Len(LastSegs(c)))

(***************************************************************************)
(* C18: when the cursor of the walk of a regular node is an embedded       *)
(* identifier after segment i (a typed identifier, or a string that parses *)
(* as one), resolve stops walking that block and recurses with that        *)
(* identifier and the path made of segment i and all the segments after    *)
(* it; this is tested after every segment, not only the last.              *)
(***************************************************************************)
\* Level j of call c walked a regular node.
WalkedIpldLevel(c, j) ==
  /\ LevelWalked(c, j)
  /\ Levels(c)[j].cid.code \notin {kDagPbCodec, kLibp2pKeyCodec}
  /\ ~(call[c].options.given /\ ~call[c].options.followIpld)
  /\ Decodable(blocks[Levels(c)[j].cid])

C18_JumpReincludesSegment ==
  \A c \in DOMAIN call : \A j \in 1..Len(Levels(c)) :
    WalkedIpldLevel(c, j) =>
      LET root == blocks[Levels(c)[j].cid]
          segs == LevelSegs(c, j)
      IN \A k \in 1..Len(segs) :
           JumpsAt(root, segs, k) =>
             /\ j < Len(Levels(c))
             /\ Levels(c)[j + 1].cid = EmbeddedCid(Cursor(root, segs, k))
             /\ LevelSegs(c, j + 1) = SubSeq(segs, k, Len(segs))

\* An identifier held as a string, met after the second of three segments.
C18_Witness ==
  \E c \in DOMAIN call :
    /\ Len(Levels(c)) >= 2
    /\ WalkedIpldLevel(c, 1)
    /\ Len(LevelSegs(c, 1)) = 3
    /\ JumpsAt(blocks[Levels(c)[1].cid], LevelSegs(c, 1), 2)
    /\ Cursor(blocks[Levels(c)[1].cid], LevelSegs(c, 1), 2).t = "str"
    /\ Len(LevelSegs(c, 2)) = 2

(***************************************************************************)
(* C19: in the DAG-PB branch, when several links are named as the first    *)
(* remaining segment, the first of them in the node's order is followed,   *)
(* and the recursion gets its target and the segments after the first.     *)
(***************************************************************************)
\* Level j of call c followed a link of a DAG-PB node.
FollowedLink(c, j) ==
  /\ j < Len(Levels(c))
  /\ Levels(c)[j].cid.code = kDagPbCodec

C19_FirstMatchingLinkWins ==
  \A c \in DOMAIN call : \A j \in 1..Len(Levels(c)) :
    FollowedLink(c, j) =>
      LET links == blocks[Levels(c)[j].cid].v
          segs == LevelSegs(c, j)
      IN /\ NamesLink(links, segs[1])
         /\ Levels(c)[j + 1].cid = FirstTarget(links, segs[1])
         /\ LevelSegs(c, j + 1) = SubSeq(segs, 2, Len(segs))

\* Two links named "a" with different targets, and a segment left after "a".
C19_Witness ==
  \E c \in DOMAIN call : \E j \in 1..Len(Levels(c)) :
    /\ FollowedLink(c, j)
    /\ LET links == blocks[Levels(c)[j].cid].v
       IN \E k1 \in 1..Len(links), k2 \in 1..Len(links) :
            /\ k1 < k2
            /\ links[k1].Name = <<"a">> /\ links[k2].Name = <<"a">>
            /\ links[k1].Hash # links[k2].Hash
            /\ Levels(c)[j + 1].cid = links[k1].Hash
    /\ LevelSegs(c, j) = <<"a", "b">>
    /\ LevelSegs(c, j + 1) = <<"b">>

(***************************************************************************)
(* C20: termination.  With a finite path, an acyclic reference graph and a *)
(* Block Source and decoder that always answer, every call of resolve      *)
(* ends with a result or an error, and it fetches no more blocks than the  *)
(* longest chain of references from its starting identifier holds.         *)
(***************************************************************************)
\* The identifiers a block refers to: the targets of its links, and the
\* identifiers embedded anywhere in its value.
RECURSIVE References(_)
References(v) ==
  CASE v.t = "pb" -> {v.v[k].Hash : k \in 1..Len(v.v)}
    [] v.t = "arr" -> UNION {References(v.v[k]) : k \in 1..Len(v.v)}
    [] v.t = "map" -> UNION {References(v.v[k]) : k \in DOMAIN v.v}
    [] OTHER -> IF IsEmbedded(v) THEN {EmbeddedCid(v)} ELSE {}

Longest(lens) == CHOOSE n \in lens : \A m \in lens : m <= n

\* The number of blocks on the longest chain of references that starts at
\* cid, in the Block Source as it stands.  A libp2p-key is never fetched.
RECURSIVE LongestChain(_)
LongestChain(cid) ==
  IF cid.code = kLibp2pKeyCodec THEN 0
  ELSE 1 + Longest({0} \cup {LongestChain(r) : r \in References(blocks[cid])})

FetchesWithinChain(c) == Cardinality(Gets(c)) <= LongestChain(Levels(c)[1].cid)

Ended(c) ==
  /\ c \in DOMAIN call
  /\ call[c].pc = "done"
  /\ call[c].result.kind \in {"return", "throw"}

C20_ResolveTerminates ==
  /\ \A c \in Calls : (c \in DOMAIN call) ~> Ended(c)
  /\ [](\A c \in DOMAIN call : FetchesWithinChain(c))

\* A call has ended after fetching a chain of MaxDigest blocks.
C20_Witness ==
  \E c \in DOMAIN call :
    /\ Ended(c)
    /\ Cardinality(Gets(c)) = MaxDigest
    /\ Cardinality(Gets(c)) = LongestChain(Levels(c)[1].cid)

(***************************************************************************)
(* C16: two calls of resolve that run concurrently, interleaved at their   *)
(* fetch and decode suspension points, each end with the outcome the call  *)
(* has when it runs alone against the same blocks; at every suspension     *)
(* point a call is on a position of its run alone.                         *)
(***************************************************************************)
\* What the call produces when nothing interleaves with it.
Alone(c) == ResolveFrom(Levels(c)[1].cid, Levels(c)[1].path, call[c].options)

\* What is left of the call at its present position, run alone.
AloneFromHere(c) == ResolveFrom(call[c].cid, call[c].path, call[c].options)

Settled(r) == r.kind \in {"return", "throw"}

C16_ConcurrentAsAlone ==
  \A c \in DOMAIN call :
    /\ Done(c) => Settled(call[c].result) /\ call[c].result = Alone(c)
    /\ ~Done(c) => AloneFromHere(c) = Alone(c)

\* Both calls are suspended at the decode of their second block, on
\* different paths, and one of them has its outcome decided by the blocks.
C16_Witness ==
  /\ DOMAIN call = Calls
  /\ \A c \in Calls : call[c].pc = "decode" /\ Len(Levels(c)) = 2
  /\ Levels(1)[1].path # Levels(2)[1].path
  /\ \E c \in Calls : Settled(Alone(c))

(***************************************************************************)
(* C17: idempotence.  Two calls of resolve with the same identifier, path  *)
(* and options, against a Block Source whose answers do not change, end    *)
(* with the same outcome: the same value, identifier and block, or the     *)
(* same error.                                                             *)
(***************************************************************************)
SameArguments(c, d) ==
  /\ Levels(c)[1].cid = Levels(d)[1].cid
  /\ Levels(c)[1].path = Levels(d)[1].path
  /\ call[c].options = call[d].options

C17_Idempotent ==
  \A c \in DOMAIN call, d \in DOMAIN call :
    (SameArguments(c, d) /\ call[c].pc = "done" /\ call[d].pc = "done")
      => call[c].result = call[d].result

\* Two calls with the same arguments have both walked two blocks and
\* returned a value.
C17_Witness ==
  /\ DOMAIN call = Calls
  /\ SameArguments(1, 2)
  /\ \A c \in Calls : /\ call[c].pc = "done"
                      /\ call[c].result.kind = "return"
                      /\ Len(Levels(c)) = 2

(***************************************************************************)
(* Vocabulary of the properties of resolveIpns.                            *)
(***************************************************************************)
Markers == {IpnsMarker, IpfsMarker}

HasMarker(text) == \E m \in Markers : Len(text) >= Len(m) /\ SubSeq(text, 1, Len(m)) = m

\* The text with its namespace marker taken off.
AfterMarker(text) ==
  CHOOSE rest \in {SubSeq(text, k, Len(text)) : k \in 1..(Len(text) + 1)} :
    \E m \in Markers : text = m \o rest

IsCidText(text) == \E id \in AllCids : CIDToString(id) = text

CidOfText(text) == CHOOSE id \in AllCids : CIDToString(id) = text

IpnsDone == ipns.pc = "done"

\* The Name Resolver's sequence ended by itself.
SequenceEnded == IpnsDone /\ ipns.fail = NoErr

LastEmitted == ipns.seq[Len(ipns.seq)]

LastParses == ipns.seq # <<>> /\ IsCidText(AfterMarker(LastEmitted))

(***************************************************************************)
(* C13: resolveIpns calls the Name Resolver once, with recursive           *)
(* resolution requested, and takes every string of its sequence; when the  *)
(* sequence ends and is not empty, the call returns the identifier parsed   *)
(* from the last emitted string without its marker, whatever was emitted   *)
(* before.                                                                 *)
(***************************************************************************)
C13_LastEmittedDecides ==
  /\ ipns.pc # "idle" =>
       /\ Len(ipns.resolves) = 1
       /\ ipns.resolves[1].options.recursive = TRUE
       /\ \A k \in 1..Len(ipns.seq) : HasMarker(ipns.seq[k])
  /\ SequenceEnded => ipns.taken = Len(ipns.seq)
  /\ (SequenceEnded /\ LastParses) =>
       ipns.result = IpnsReturn(CidOfText(AfterMarker(LastEmitted)))

\* The Name Resolver emitted the text of one identifier and then the text of
\* another, and the call returned the second.
C13_Witness ==
  /\ SequenceEnded
  /\ Len(ipns.seq) = 2
  /\ IsCidText(AfterMarker(ipns.seq[1]))
  /\ LastParses
  /\ AfterMarker(ipns.seq[1]) # AfterMarker(ipns.seq[2])
  /\ ipns.result.kind = "return"

(***************************************************************************)
(* C14: resolveIpns fails, and returns no identifier, when the Name        *)
(* Resolver's sequence is empty and when its last string does not parse as *)
(* an identifier once the marker is off; an error of the Name Resolver is  *)
(* the error the caller gets.                                              *)
(***************************************************************************)
C14_FailsWithoutParsableLast ==
  /\ (SequenceEnded /\ ~LastParses) =>
       ipns.result.kind = "throw" /\ ipns.result.cid = NoCid
  /\ (IpnsDone /\ ipns.fail # NoErr) => ipns.result = IpnsThrow(ipns.fail)

\* The Name Resolver emitted nothing for the text of a CID, and the call
\* failed.
C14_Witness ==
  /\ SequenceEnded
  /\ ipns.seq = <<>>
  /\ ipns.name.t = "str"
  /\ IsCidText(ipns.name.v)
  /\ ipns.result.kind = "throw"

(***************************************************************************)
(* C15, as stated: resolveIpns fails whenever the name is a string that    *)
(* does not parse as an identifier, whatever the Name Resolver emits.      *)
(***************************************************************************)
UnparsableName == ipns.name.t = "str" /\ ~IsCidText(ipns.name.v)

====
